---- MODULE Spec2Model ----
(***************************************************************************)
(* The App component of src/src/App.tsx (the same logic, without logging,  *)
(* is src/unnamed/part_004): its React state, its three refs, the          *)
(* WebSocket handlers set up by connectWebSocket, startRecording,          *)
(* stopRecording with its auto-summary timer, generateSummary, clearAll    *)
(* and the unmount cleanup.  Every action is one browser task: a handler   *)
(* together with the promise continuations that run right after it.        *)
(* The AuthProvider of src/unnamed/part_006 (mount effect, login, signup,  *)
(* logout) has its own variables and its own specification, SpecAuth.      *)
(***************************************************************************)
EXTENDS Integers, Sequences, FiniteSets, TLC

\* ---------------------------------------------------------------- bounds
\* startRecording calls over a run; each creates exactly one WebSocket.
MaxSockets == 2
\* Longest text carried by a frame (text, full_transcript), in characters.
MaxLen == 1
\* Largest speaker tag of a recognition result.
MaxSpeaker == 2
\* Recognition results fed to the speaker tracking of a session.
MaxTags == 4
\* Requests issued by generateSummary when it is called on its own.
MaxCalls == 1
\* Requests of the AuthProvider over a run (token validation, login, signup).
MaxAuthOps == 2
\* Distinct access tokens the backend hands out over a run.
MaxToken == 2

\* ------------------------------------------------------------- data model
\* A string is a sequence of characters; " " is the whitespace character.
Chars == {"a", " "}

Str == UNION {[1..n -> Chars] : n \in 0..MaxLen}

\* An optional JSON field: <<>> when the field is missing, <<v>> when present.
Opt(S) == {<<>>} \cup {<<v>> : v \in S}

Sockets == 1..MaxSockets

ConnectionStatus == {"Disconnected", "Connecting", "Connected",
                     "Connected to Deepgram", "Enhanced Features Active",
                     "Connection Error"}

ErrUnknown == "Unknown error occurred"

ErrBackend == "Backend error"

ErrConnection == "Connection failed. Make sure the backend is running."

ErrStart == "Failed to start recording. Please check microphone permissions."

ErrStop == "Error stopping recording"

ErrNoTranscription == "No transcription available to summarize"

ErrSummary == "Failed to generate AI summary. Please check if the backend is running."

\* The frames a server can put on the socket, after JSON.parse.  `status` is
\* a field the handler never reads; a status frame may carry it.
TranscriptionFrames ==
    [type : {"transcription"}, text : Opt(Str), is_final : Opt(BOOLEAN),
     full_transcript : Opt(Str), message : {<<>>}, status : {<<>>}]

StatusFrames ==
    [type : {"connection_status"}, text : {<<>>}, is_final : {<<>>},
     full_transcript : {<<>>}, message : Opt(ConnectionStatus),
     status : Opt(ConnectionStatus)]

ErrorFrames ==
    [type : {"error"}, text : {<<>>}, is_final : {<<>>},
     full_transcript : {<<>>}, message : Opt({ErrBackend}), status : {<<>>}]

OtherFrames ==
    [type : {"pong"}, text : {<<>>}, is_final : {<<>>},
     full_transcript : {<<>>}, message : {<<>>}, status : {<<>>}]

Frames == TranscriptionFrames \cup StatusFrames \cup ErrorFrames \cup OtherFrames

\* The frames of the session runs: a final result, with every
\* full_transcript of at most one character (missing, empty, a word,
\* whitespace only).
SessionFrames ==
    [type : {"transcription"}, text : {<< <<"a">> >>}, is_final : {<<TRUE>>},
     full_transcript : {<<>>, << <<>> >>} \cup {<<w>> : w \in [1..1 -> Chars]},
     message : {<<>>}, status : {<<>>}]

\* JavaScript truthiness of an optional field: a missing field (undefined),
\* the empty string and false are falsy.  One operator per field type.
TruthyText(opt) == opt # <<>> /\ opt[1] # <<>>

TruthyFlag(opt) == opt # <<>> /\ opt[1]

TruthyMsg(opt) == opt # <<>> /\ opt[1] # ""

\* `data.full_transcript || dflt`
TextOrElse(opt, dflt) == IF TruthyText(opt) THEN opt[1] ELSE dflt

\* `data.message || dflt`
MsgOrElse(opt, dflt) == IF TruthyMsg(opt) THEN opt[1] ELSE dflt

RECURSIVE TrimStart(_)
TrimStart(s) == IF s # <<>> /\ Head(s) = " " THEN TrimStart(Tail(s)) ELSE s

RECURSIVE TrimEnd(_)
TrimEnd(s) ==
    IF s # <<>> /\ s[Len(s)] = " " THEN TrimEnd(SubSeq(s, 1, Len(s) - 1)) ELSE s

\* String.prototype.trim
Trim(s) == TrimEnd(TrimStart(s))

IsPrefix(p, s) == Len(p) <= Len(s) /\ SubSeq(s, 1, Len(p)) = p

VARIABLES
    isRecording,          \* useState: recording flag
    transcription,        \* useState: final transcript
    interimText,          \* useState: interim text
    connectionStatus,     \* useState: connection status
    error,                \* useState: error text ("" when none)
    aiSummary,            \* useState: <<>> (null) or <<summary>>
    isGeneratingSummary,  \* useState: loading flag
    websocketRef,         \* useRef: 0 (null) or a socket
    mediaRecorderRef,     \* useRef: 0 (null) or the recorder of a start
    audioStreamRef,       \* useRef: 0 (null) or the stream of a start
    readyState,           \* per socket: NONE (not created), CONNECTING, OPEN, CLOSING, CLOSED
    startPc,              \* per startRecording call: idle, awaitConnect, awaitMic, done
    recorder,             \* per start: none, recording, flushing, inactive
    trackLive,            \* per start: the microphone track is live
    timers,               \* pending auto-summary timeouts, in arming order
    fetches,              \* summarization requests in flight
    nRequests,            \* requests issued so far
    autoRequests,         \* per recorder: automatic requests issued for its session
    sentOn,               \* socket the latest task sent an audio chunk on (0: it sent none)
    msgSeq,               \* number of frames ws.onmessage has handled, modulo 2
    lastFrame,            \* what the latest task was, when it was ws.onmessage
    lastChunk,            \* what the latest task did with its audio chunk, when it had one
    firstSent,            \* per socket: the first frame sent on it (none, start, audio)
    speakerTags,          \* server session: the speaker tags of the results so far
    currentSpeaker,       \* server session: <<>> or <<the last speaker tag>>
    speakerCount,         \* server session: the speaker count
    clearedText,          \* the transcript the latest task removed, when it was clearAll
    isAuthenticated,      \* AuthProvider useState: logged-in flag
    user,                 \* AuthProvider useState: 0 (null) or the user of a token
    token,                \* AuthProvider useState: 0 (null) or an access token
    isLoading,            \* AuthProvider useState: loading flag
    authError,            \* AuthProvider useState error: <<>> (null) or <<message>>
    storedToken,          \* localStorage 'auth_token': 0 (absent) or a token
    authOps,              \* AuthProvider requests in flight
    nAuthOps,             \* AuthProvider requests issued so far
    authPhase,            \* AuthProvider: initial (rendered), mounted (effect has run)
    loggedOut,            \* logout has run and no login or signup was started since
    mounted               \* the component is mounted

vars == <<isRecording, transcription, interimText, connectionStatus, error,
          aiSummary, isGeneratingSummary, websocketRef, mediaRecorderRef,
          audioStreamRef, readyState, startPc, recorder, trackLive, timers,
          fetches, nRequests, autoRequests, sentOn, msgSeq, lastFrame, lastChunk,
          firstSent, speakerTags, currentSpeaker, speakerCount, clearedText,
          isAuthenticated, user, token, isLoading, authError, storedToken,
          authOps, nAuthOps, authPhase, loggedOut, mounted>>

uiVars == <<isRecording, transcription, interimText, connectionStatus, error,
            aiSummary, isGeneratingSummary>>

refVars == <<websocketRef, mediaRecorderRef, audioStreamRef>>

mediaVars == <<recorder, trackLive>>

summaryVars == <<timers, fetches, nRequests, autoRequests>>

speakerVars == <<speakerTags, currentSpeaker, speakerCount>>

authVars == <<isAuthenticated, user, token, isLoading, authError, storedToken,
              authOps, nAuthOps, authPhase, loggedOut>>

\* The variables of the App component and of the session.
appVars == <<uiVars, refVars, readyState, startPc, mediaVars, summaryVars,
             sentOn, msgSeq, lastFrame, lastChunk, firstSent, speakerVars,
             clearedText, mounted>>

Init ==
    /\ isRecording = FALSE
    /\ transcription = <<>>
    /\ interimText = <<>>
    /\ connectionStatus = "Disconnected"
    /\ error = ""
    /\ aiSummary = <<>>
    /\ isGeneratingSummary = FALSE
    /\ websocketRef = 0
    /\ mediaRecorderRef = 0
    /\ audioStreamRef = 0
    /\ readyState = [s \in Sockets |-> "NONE"]
    /\ startPc = [s \in Sockets |-> "idle"]
    /\ recorder = [s \in Sockets |-> "none"]
    /\ trackLive = [s \in Sockets |-> FALSE]
    /\ timers = <<>>
    /\ fetches = <<>>
    /\ nRequests = 0
    /\ autoRequests = [s \in 0..MaxSockets |-> 0]
    /\ sentOn = 0
    /\ msgSeq = 0
    /\ lastFrame = "none"
    /\ lastChunk = "none"
    /\ firstSent = [s \in Sockets |-> "none"]
    /\ speakerTags = <<>>
    /\ currentSpeaker = <<>>
    /\ speakerCount = 0
    /\ clearedText = <<>>
    /\ isAuthenticated = FALSE
    /\ user = 0
    /\ token = 0
    /\ isLoading = TRUE
    /\ authError = <<>>
    /\ storedToken = 0
    /\ authOps = <<>>
    /\ nAuthOps = 0
    /\ authPhase = "initial"
    /\ loggedOut = FALSE
    /\ mounted = TRUE

\* A task of the client that sends nothing and handles no frame.
Quiet ==
    /\ sentOn' = 0
    /\ msgSeq' = msgSeq
    /\ lastFrame' = "none"
    /\ lastChunk' = "none"
    /\ UNCHANGED <<firstSent, speakerVars, authVars>>

\* The same, for every task but clearAll.
NoSend == Quiet /\ clearedText' = <<>>

\* A state setter of useState: an update of an unmounted component is ignored.
SetState(cur, new) == IF mounted THEN new ELSE cur

\* ------------------------------------------------------ connectWebSocket
\* The Start button: startRecording up to its first await.  setError(''),
\* then connectWebSocket sets the status, creates the socket and stores it.
ClickStart(s) ==
    /\ mounted
    /\ ~isRecording
    /\ connectionStatus # "Connection Error"
    /\ readyState[s] = "NONE"
    /\ \A r \in Sockets : r < s => readyState[r] # "NONE"
    /\ error' = ""
    /\ connectionStatus' = "Connecting"
    /\ readyState' = [readyState EXCEPT ![s] = "CONNECTING"]
    /\ websocketRef' = s
    /\ startPc' = [startPc EXCEPT ![s] = "awaitConnect"]
    /\ UNCHANGED <<isRecording, transcription, interimText, aiSummary,
                   isGeneratingSummary, mediaRecorderRef, audioStreamRef>>
    /\ UNCHANGED <<mediaVars, summaryVars, mounted>>
    /\ NoSend

\* OnOpenSends with ws.onopen sending the audio held back while connecting.
OnOpenSends_Flush(s) == <<"audio">>

\* The frames ws.onopen sends on its socket, in order: it sends none.
OnOpenSends(s) == <<>>

\* ws.onopen, and the continuation of startRecording up to getUserMedia.
SocketOpen(s) ==
    /\ readyState[s] = "CONNECTING"
    /\ readyState' = [readyState EXCEPT ![s] = "OPEN"]
    /\ connectionStatus' = SetState(connectionStatus, "Connected")
    /\ error' = SetState(error, "")
    /\ startPc' = [startPc EXCEPT ![s] = "awaitMic"]
    /\ UNCHANGED <<isRecording, transcription, interimText, aiSummary,
                   isGeneratingSummary>>
    /\ UNCHANGED <<refVars, mediaVars, summaryVars, mounted>>
    /\ sentOn' = IF \E i \in 1..Len(OnOpenSends(s)) : OnOpenSends(s)[i] = "audio"
                 THEN s ELSE 0
    /\ firstSent' = IF OnOpenSends(s) # <<>> /\ firstSent[s] = "none"
                    THEN [firstSent EXCEPT ![s] = Head(OnOpenSends(s))]
                    ELSE firstSent
    /\ msgSeq' = msgSeq
    /\ lastFrame' = "none"
    /\ lastChunk' = "none"
    /\ clearedText' = <<>>
    /\ UNCHANGED <<speakerVars, authVars>>

\* ------------------------------------------------------------ ws.onmessage
\* TranscriptionAfter without the test of data.text.
TranscriptionAfter_NoTextGuard(f, cur) ==
    IF TruthyFlag(f.is_final) THEN TextOrElse(f.full_transcript, <<>>) ELSE cur

\* The final transcript after a transcription frame.
TranscriptionAfter(f, cur) ==
    IF TruthyText(f.text) /\ TruthyFlag(f.is_final)
    THEN TextOrElse(f.full_transcript, <<>>)
    ELSE cur

\* InterimAfter without the test of data.text.
InterimAfter_NoTextGuard(f, cur) ==
    IF TruthyFlag(f.is_final) THEN <<>> ELSE TextOrElse(f.text, <<>>)

\* InterimAfter with the interim branch appending to the previous interim text.
InterimAfter_Append(f, cur) ==
    IF TruthyText(f.text)
    THEN IF TruthyFlag(f.is_final) THEN <<>> ELSE cur \o f.text[1]
    ELSE cur

\* The interim text after a transcription frame.
InterimAfter(f, cur) ==
    IF TruthyText(f.text)
    THEN IF TruthyFlag(f.is_final) THEN <<>> ELSE f.text[1]
    ELSE cur

\* StatusAfter with the handler reading the `status` field of the frame.
StatusAfter_StatusField(f, cur) == IF f.status # <<>> THEN f.status[1] ELSE cur

\* The connection status after a connection_status frame.
StatusAfter(f, cur) == IF TruthyMsg(f.message) THEN f.message[1] ELSE cur

\* What the handled frame f was, for the interim text cur it met: a final
\* transcription frame whose text is the empty string ("emptyFinal"), a final
\* transcription frame with a text that met a non-empty interim text
\* ("finalOverInterim"), or any other frame ("none").
FrameKind(f, cur) ==
    IF f.type = "transcription" /\ TruthyFlag(f.is_final)
    THEN IF f.text = << <<>> >> THEN "emptyFinal"
         ELSE IF TruthyText(f.text) /\ cur # <<>> THEN "finalOverInterim"
         ELSE "none"
    ELSE "none"

\* ws.onmessage of socket s, for the parsed frame f.
OnMessage(s, f) ==
    /\ readyState[s] = "OPEN"
    /\ transcription' =
         IF f.type = "transcription"
         THEN SetState(transcription, TranscriptionAfter(f, transcription))
         ELSE transcription
    /\ interimText' =
         IF f.type = "transcription"
         THEN SetState(interimText, InterimAfter(f, interimText))
         ELSE interimText
    /\ connectionStatus' =
         IF f.type = "connection_status"
         THEN SetState(connectionStatus, StatusAfter(f, connectionStatus))
         ELSE connectionStatus
    /\ error' =
         IF f.type = "error"
         THEN SetState(error, MsgOrElse(f.message, ErrUnknown))
         ELSE error
    /\ UNCHANGED <<isRecording, aiSummary, isGeneratingSummary>>
    /\ UNCHANGED <<refVars, readyState, startPc, mediaVars, summaryVars,
                   mounted>>
    /\ sentOn' = 0
    /\ msgSeq' = (msgSeq + 1) % 2
    /\ lastFrame' = FrameKind(f, interimText)
    /\ lastChunk' = "none"
    /\ clearedText' = <<>>
    /\ UNCHANGED <<firstSent, speakerVars, authVars>>

\* AfterParseError with the catch closing the socket.
AfterParseError_Close(rs, s) == [rs EXCEPT ![s] = "CLOSING"]

\* The sockets after the catch of ws.onmessage: it logs and returns.
AfterParseError(rs, s) == rs

\* ws.onmessage of socket s for a message that is not a JSON object:
\* JSON.parse (or the read of data.type) throws and the catch runs.
OnMalformedMessage(s) ==
    /\ readyState[s] = "OPEN"
    /\ readyState' = AfterParseError(readyState, s)
    /\ UNCHANGED <<uiVars, refVars, startPc, mediaVars, summaryVars, mounted>>
    /\ sentOn' = 0
    /\ msgSeq' = (msgSeq + 1) % 2
    /\ lastFrame' = "malformed"
    /\ lastChunk' = "none"
    /\ clearedText' = <<>>
    /\ UNCHANGED <<firstSent, speakerVars, authVars>>

\* ws.onerror: the status and error text it sets.
OnErrorStatus == "Connection Error"

\* OnCloseStatus with ws.onclose keeping the status of a failed connection.
OnCloseStatus_Error == "Connection Error"

\* ws.onclose: the status it sets.
OnCloseStatus == "Disconnected"

\* The error texts written, in order, when socket s fails.  ws.onerror sets
\* its text and rejects the promise of connectWebSocket; while startRecording
\* still awaits it, the catch of startRecording runs next and sets its own.
ErrorWritesOnError(s) ==
    IF startPc[s] = "awaitConnect"
    THEN <<ErrConnection, ErrStart>>
    ELSE <<ErrConnection>>

\* The error text left by them: the last one written.
ErrorAfterOnError(s) == ErrorWritesOnError(s)[Len(ErrorWritesOnError(s))]

\* The connection of socket s fails (handshake refused, transport lost).  The
\* browser sets readyState to CLOSED and fires error, then close, in one task.
SocketError(s) ==
    /\ readyState[s] \in {"CONNECTING", "OPEN"}
    /\ readyState' = [readyState EXCEPT ![s] = "CLOSED"]
    /\ error' = SetState(error, ErrorAfterOnError(s))
    /\ connectionStatus' = SetState(SetState(connectionStatus, OnErrorStatus), OnCloseStatus)
    /\ startPc' = [startPc EXCEPT ![s] = IF @ = "awaitConnect" THEN "done" ELSE @]
    /\ UNCHANGED <<isRecording, transcription, interimText, aiSummary,
                   isGeneratingSummary>>
    /\ UNCHANGED <<refVars, mediaVars, summaryVars, mounted>>
    /\ NoSend

\* The close event of socket s: the server closes an open socket, or the
\* closing handshake started by close() completes.  A socket closed by
\* close() before it opened fails: error is fired before close.
SocketClosed(s) ==
    /\ readyState[s] \in {"OPEN", "CLOSING"}
    /\ readyState' = [readyState EXCEPT ![s] = "CLOSED"]
    /\ error' = IF startPc[s] = "awaitConnect"
                THEN SetState(error, ErrorAfterOnError(s))
                ELSE error
    /\ connectionStatus' = SetState(connectionStatus, OnCloseStatus)
    /\ startPc' = [startPc EXCEPT ![s] = IF @ = "awaitConnect" THEN "done" ELSE @]
    /\ UNCHANGED <<isRecording, transcription, interimText, aiSummary,
                   isGeneratingSummary>>
    /\ UNCHANGED <<refVars, mediaVars, summaryVars, mounted>>
    /\ NoSend

\* ---------------------------------------------------------- startRecording
\* getUserMedia resolves: the rest of startRecording.
MicGranted(s) ==
    /\ startPc[s] = "awaitMic"
    /\ audioStreamRef' = s
    /\ trackLive' = [trackLive EXCEPT ![s] = TRUE]
    /\ mediaRecorderRef' = s
    /\ recorder' = [recorder EXCEPT ![s] = "recording"]
    /\ isRecording' = SetState(isRecording, TRUE)
    /\ startPc' = [startPc EXCEPT ![s] = "done"]
    /\ UNCHANGED <<transcription, interimText, connectionStatus, error,
                   aiSummary, isGeneratingSummary, websocketRef, readyState>>
    /\ UNCHANGED <<summaryVars, mounted>>
    /\ NoSend

\* getUserMedia rejects: the catch of startRecording.
MicDenied(s) ==
    /\ startPc[s] = "awaitMic"
    /\ error' = SetState(error, ErrStart)
    /\ startPc' = [startPc EXCEPT ![s] = "done"]
    /\ UNCHANGED <<isRecording, transcription, interimText, connectionStatus,
                   aiSummary, isGeneratingSummary, readyState>>
    /\ UNCHANGED <<refVars, mediaVars, summaryVars, mounted>>
    /\ NoSend

\* The test of mediaRecorder.ondataavailable, for a chunk of non-zero size.
CanSend == websocketRef # 0 /\ readyState[websocketRef] = "OPEN"

\* mediaRecorder.ondataavailable for a chunk: sent on websocketRef.current
\* when the test passes, dropped otherwise.
HandleChunk(nonEmpty) ==
    /\ sentOn' = IF nonEmpty /\ CanSend THEN websocketRef ELSE 0
    /\ firstSent' = IF nonEmpty /\ CanSend /\ firstSent[websocketRef] = "none"
                    THEN [firstSent EXCEPT ![websocketRef] = "audio"]
                    ELSE firstSent
    /\ msgSeq' = msgSeq
    /\ lastFrame' = "none"
    /\ clearedText' = <<>>
    /\ UNCHANGED <<speakerVars, authVars>>

\* What the handler does with a chunk: nothing to do for an empty one
\* ("none"), else sent or dropped; `final` tells the last chunk of a recorder.
ChunkFate(nonEmpty, final) ==
    IF ~nonEmpty THEN "none"
    ELSE IF CanSend THEN (IF final THEN "sentFinal" ELSE "sent")
    ELSE (IF final THEN "droppedFinal" ELSE "dropped")

\* The recorder of start r emits its periodic chunk (timeslice 100 ms).
DataAvailable(r, nonEmpty) ==
    /\ recorder[r] = "recording"
    /\ HandleChunk(nonEmpty)
    /\ lastChunk' = ChunkFate(nonEmpty, FALSE)
    /\ UNCHANGED <<uiVars, refVars, readyState, startPc, mediaVars,
                   summaryVars, mounted>>

\* The recorder of start r, stopped by stop(), emits its last chunk.
FinalDataAvailable(r, nonEmpty) ==
    /\ recorder[r] = "flushing"
    /\ HandleChunk(nonEmpty)
    /\ lastChunk' = ChunkFate(nonEmpty, TRUE)
    /\ recorder' = [recorder EXCEPT ![r] = "inactive"]
    /\ UNCHANGED <<uiVars, refVars, readyState, startPc, trackLive,
                   summaryVars, mounted>>

\* ----------------------------------------------------------- stopRecording
\* CloseSocket with a close() that is never called.
CloseSocket_Noop(rs, s) == rs

\* WebSocket.close(): a connecting or open socket starts closing.
CloseSocket(rs, s) ==
    [rs EXCEPT ![s] = IF @ \in {"CONNECTING", "OPEN"} THEN "CLOSING" ELSE @]

\* StopRecorder with a stop() that is never called.
StopRecorder_Noop(rec, r) == rec

\* mediaRecorderRef.current.stop() behind its test: a recording recorder
\* becomes inactive at once and emits its last chunk in a later task.
StopRecorder(rec, r) ==
    [rec EXCEPT ![r] = IF @ = "recording" THEN "flushing" ELSE @]

\* The session a stop belongs to: the recorder the ref holds (0: none).
SessionOf == mediaRecorderRef

\* The body of stopRecording but for setIsRecording(false), for the
\* `transcription` its closure holds.
StopHandles(closureText) ==
    /\ recorder' = IF mediaRecorderRef # 0
                   THEN StopRecorder(recorder, mediaRecorderRef)
                   ELSE recorder
    /\ trackLive' = IF audioStreamRef # 0
                    THEN [trackLive EXCEPT ![audioStreamRef] = FALSE]
                    ELSE trackLive
    /\ audioStreamRef' = 0
    /\ readyState' = IF websocketRef # 0
                     THEN CloseSocket(readyState, websocketRef)
                     ELSE readyState
    /\ websocketRef' = 0
    /\ timers' = Append(timers, [text |-> closureText, session |-> SessionOf])

\* stopRecording.
StopRecording(closureText) ==
    /\ StopHandles(closureText)
    /\ isRecording' = SetState(isRecording, FALSE)

\* The Stop button: stopRecording of the current render.
ClickStop ==
    /\ mounted
    /\ isRecording
    /\ connectionStatus # "Connection Error"
    /\ StopRecording(transcription)
    /\ UNCHANGED <<transcription, interimText, connectionStatus, error,
                   aiSummary, isGeneratingSummary, mediaRecorderRef, startPc,
                   fetches, nRequests, autoRequests, mounted>>
    /\ NoSend

\* The teardown calls of stopRecording, in the order it makes them.
TeardownSteps == <<"recorder", "track", "socket">>

\* The Stop button when the teardown call number `at` throws: the calls
\* before it have run, the rest of the try block is skipped (no
\* setIsRecording(false), no timeout) and the catch sets the error.
ClickStopThrows(at) ==
    /\ mounted
    /\ isRecording
    /\ connectionStatus # "Connection Error"
    /\ CASE TeardownSteps[at] = "recorder" ->
                /\ mediaRecorderRef # 0 /\ recorder[mediaRecorderRef] = "recording"
                /\ UNCHANGED <<recorder, trackLive, audioStreamRef, readyState,
                               websocketRef>>
         [] TeardownSteps[at] = "track" ->
                /\ audioStreamRef # 0
                /\ recorder' = IF mediaRecorderRef # 0
                               THEN StopRecorder(recorder, mediaRecorderRef)
                               ELSE recorder
                /\ UNCHANGED <<trackLive, audioStreamRef, readyState, websocketRef>>
         [] TeardownSteps[at] = "socket" ->
                /\ websocketRef # 0
                /\ recorder' = IF mediaRecorderRef # 0
                               THEN StopRecorder(recorder, mediaRecorderRef)
                               ELSE recorder
                /\ trackLive' = IF audioStreamRef # 0
                                THEN [trackLive EXCEPT ![audioStreamRef] = FALSE]
                                ELSE trackLive
                /\ audioStreamRef' = 0
                /\ UNCHANGED <<readyState, websocketRef>>
    /\ error' = SetState(error, ErrStop)
    /\ UNCHANGED <<isRecording, transcription, interimText, connectionStatus,
                   aiSummary, isGeneratingSummary, mediaRecorderRef, startPc,
                   summaryVars, mounted>>
    /\ NoSend

\* CleanupClosureText with the cleanup calling the stopRecording of the
\* current render.
CleanupClosureText_Current == transcription

\* The `transcription` held by the stopRecording that the cleanup effect
\* calls: the effect has no dependencies, so it keeps the first render's.
CleanupClosureText == <<>>

\* Unmount: the cleanup of the mount effect.  stopRecording leaves
\* websocketRef.current null, so the close() after it does not run.  React
\* then discards the state of the component: the state variables are left
\* at their initial values and no setter changes them any more.
Unmount ==
    /\ mounted
    /\ StopHandles(CleanupClosureText)
    /\ mounted' = FALSE
    /\ isRecording' = FALSE
    /\ transcription' = <<>>
    /\ interimText' = <<>>
    /\ connectionStatus' = "Disconnected"
    /\ error' = ""
    /\ aiSummary' = <<>>
    /\ isGeneratingSummary' = FALSE
    /\ UNCHANGED <<mediaRecorderRef, startPc, fetches, nRequests, autoRequests>>
    /\ NoSend

\* ---------------------------------------------------------- generateSummary
\* The test of the timeout callback, on the `transcription` of its closure.
AutoSummaryFires(closureText) == Trim(closureText) # <<>>

\* The summary_type of the automatic request: the default parameter.
AutoSummaryType == "meeting"

\* SummaryRejects that takes only the empty string for no content.
SummaryRejects_EmptyOnly(closureText) == closureText = <<>>

\* The validation of generateSummary, on the `transcription` of its closure.
SummaryRejects(closureText) == Trim(closureText) = <<>>

\* generateSummary up to its fetch, for the `transcription` of its closure:
\* the validation, then the loading state and the request.
GenerateSummary(closureText, summaryType) ==
    IF SummaryRejects(closureText)
    THEN /\ error' = SetState(error, ErrNoTranscription)
         /\ UNCHANGED <<isGeneratingSummary, aiSummary, fetches, nRequests>>
    ELSE /\ isGeneratingSummary' = SetState(isGeneratingSummary, TRUE)
         /\ aiSummary' = SetState(aiSummary, <<>>)
         /\ error' = SetState(error, "")
         /\ fetches' = Append(fetches, [id |-> nRequests + 1, text |-> closureText,
                                        summary_type |-> summaryType])
         /\ nRequests' = nRequests + 1

\* generateSummary of the current render called on its own, as a caller
\* other than the timeout of stopRecording would.
CallGenerateSummary ==
    /\ mounted
    /\ nRequests < MaxCalls
    /\ GenerateSummary(transcription, AutoSummaryType)
    /\ UNCHANGED <<isRecording, transcription, interimText, connectionStatus>>
    /\ UNCHANGED <<refVars, readyState, startPc, mediaVars, timers, autoRequests,
                   mounted>>
    /\ NoSend

\* The timeout armed by stopRecording fires (timeouts of equal delay fire in
\* arming order).  generateSummary runs up to its fetch with the same closure.
TimerFire ==
    /\ timers # <<>>
    /\ timers' = Tail(timers)
    /\ LET t == Head(timers) IN
       IF AutoSummaryFires(t.text)
       THEN /\ GenerateSummary(t.text, AutoSummaryType)
            /\ autoRequests' = IF SummaryRejects(t.text)
                               THEN autoRequests
                               ELSE [autoRequests EXCEPT ![t.session] = @ + 1]
       ELSE UNCHANGED <<isGeneratingSummary, aiSummary, error, fetches,
                        nRequests, autoRequests>>
    /\ UNCHANGED <<isRecording, transcription, interimText, connectionStatus>>
    /\ UNCHANGED <<refVars, readyState, startPc, mediaVars, mounted>>
    /\ NoSend

Outcomes == {"summary", "errorSummary", "failure"}

\* The summary state after request id settles: the parsed response, whether
\* or not it carries `error`; a failure leaves the state as it is.
SummaryAfter(outcome, id, cur) ==
    IF outcome = "failure"
    THEN cur
    ELSE <<[req |-> id, error |-> outcome = "errorSummary"]>>

\* ErrorAfterFetch with a catch that only logs.
ErrorAfterFetch_Silent(outcome, cur) == cur

\* The error text after a request settles: the catch sets its text.
ErrorAfterFetch(outcome, cur) == IF outcome = "failure" THEN ErrSummary ELSE cur

\* The fetch of request i settles: a summary (possibly one carrying `error`),
\* or a failure (network error, HTTP status, bad JSON) handled by the catch.
FetchSettles(i, outcome) ==
    /\ i \in 1..Len(fetches)
    /\ fetches' = SubSeq(fetches, 1, i - 1) \o SubSeq(fetches, i + 1, Len(fetches))
    /\ aiSummary' = SetState(aiSummary, SummaryAfter(outcome, fetches[i].id, aiSummary))
    /\ error' = SetState(error, ErrorAfterFetch(outcome, error))
    /\ isGeneratingSummary' = SetState(isGeneratingSummary, FALSE)
    /\ UNCHANGED <<isRecording, transcription, interimText, connectionStatus>>
    /\ UNCHANGED <<refVars, readyState, startPc, mediaVars, timers, nRequests,
                   autoRequests, mounted>>
    /\ NoSend

\* ------------------------------------------------------------------ clearAll
\* The Clear button, enabled when there is a transcript or a summary.
ClickClear ==
    /\ mounted
    /\ transcription # <<>> \/ aiSummary # <<>>
    /\ transcription' = <<>>
    /\ interimText' = <<>>
    /\ aiSummary' = <<>>
    /\ error' = ""
    /\ UNCHANGED <<isRecording, connectionStatus, isGeneratingSummary>>
    /\ UNCHANGED <<refVars, readyState, startPc, mediaVars, summaryVars,
                   mounted>>
    /\ clearedText' = transcription
    /\ Quiet

Next ==
    \/ \E s \in Sockets : ClickStart(s)
    \/ \E s \in Sockets : SocketOpen(s)
    \/ \E s \in Sockets, f \in SessionFrames : OnMessage(s, f)
    \/ \E s \in Sockets : SocketError(s)
    \/ \E s \in Sockets : SocketClosed(s)
    \/ \E s \in Sockets : MicGranted(s)
    \/ \E s \in Sockets : MicDenied(s)
    \/ \E r \in Sockets, nonEmpty \in BOOLEAN : DataAvailable(r, nonEmpty)
    \/ \E r \in Sockets, nonEmpty \in BOOLEAN : FinalDataAvailable(r, nonEmpty)
    \/ ClickStop
    \/ Unmount
    \/ TimerFire
    \/ \E i \in 1..(MaxSockets + 1), outcome \in Outcomes : FetchSettles(i, outcome)
    \/ ClickClear

\* The whole component, with the frames of the session runs.
Spec == Init /\ [][Next]_vars

\* The component without the audio chunks of the recorders.  The chunk
\* actions change only the record of what was sent and take a stopped
\* recorder from flushing to inactive, which no other action reads.
NextSummary ==
    \/ \E s \in Sockets : ClickStart(s)
    \/ \E s \in Sockets : SocketOpen(s)
    \/ \E s \in Sockets, f \in SessionFrames : OnMessage(s, f)
    \/ \E s \in Sockets : SocketError(s)
    \/ \E s \in Sockets : SocketClosed(s)
    \/ \E s \in Sockets : MicGranted(s)
    \/ \E s \in Sockets : MicDenied(s)
    \/ ClickStop
    \/ Unmount
    \/ TimerFire
    \/ \E i \in 1..(MaxSockets + 1), outcome \in Outcomes : FetchSettles(i, outcome)
    \/ ClickClear

SpecSummary == Init /\ [][NextSummary]_vars

\* The tasks the program schedules itself do run: an armed timeout fires and
\* a fetch settles.  Nothing is assumed of the events of the sockets, of the
\* microphone prompt or of the user.
SpecLive ==
    /\ Init
    /\ [][NextSummary]_vars
    /\ WF_vars(TimerFire)
    /\ WF_vars(\E i \in 1..(MaxSockets + 1), outcome \in Outcomes : FetchSettles(i, outcome))

\* Message handling on its own: every frame, on the sockets that starts
\* open, with the Clear button.
NextFrames ==
    \/ \E s \in Sockets : ClickStart(s)
    \/ \E s \in Sockets : SocketOpen(s)
    \/ \E s \in Sockets, f \in Frames : OnMessage(s, f)
    \/ \E s \in Sockets : OnMalformedMessage(s)
    \/ ClickClear

SpecFrames == Init /\ [][NextFrames]_vars

\* The life of the handles: sockets, microphone streams, recorders and their
\* chunks, without the frames of the server and without the summary.
NextAudio ==
    \/ \E s \in Sockets : ClickStart(s)
    \/ \E s \in Sockets : SocketOpen(s)
    \/ \E s \in Sockets : SocketError(s)
    \/ \E s \in Sockets : SocketClosed(s)
    \/ \E s \in Sockets : MicGranted(s)
    \/ \E s \in Sockets : MicDenied(s)
    \/ \E r \in Sockets, nonEmpty \in BOOLEAN : DataAvailable(r, nonEmpty)
    \/ \E r \in Sockets, nonEmpty \in BOOLEAN : FinalDataAvailable(r, nonEmpty)
    \/ ClickStop
    \/ Unmount
    \/ TimerFire

SpecAudio == Init /\ [][NextAudio]_vars

\* The same, where a teardown call of stopRecording may throw.
NextTeardown ==
    \/ NextAudio
    \/ \E at \in 1..Len(TeardownSteps) : ClickStopThrows(at)

SpecTeardown == Init /\ [][NextTeardown]_vars

\* The life of the handles under the status frames of the server.  The
\* timeout armed by stopRecording does fire; nothing is assumed of the
\* events of the sockets, of the microphone prompt or of the user.
NextControl ==
    \/ NextAudio
    \/ \E s \in Sockets, f \in StatusFrames : OnMessage(s, f)

SpecControl == Init /\ [][NextControl]_vars /\ WF_vars(TimerFire)

\* ------------------------------------------------------------- AuthProvider
Tokens == 1..MaxToken

\* The passwords a signup form can carry.
Passwords == {"p", "q"}

ErrMismatch == "Passwords do not match"

ErrLogin == "Login failed"

ErrSignup == "Signup failed"

\* The message of the Error thrown when fetch itself rejects.
ErrFetch == "Failed to fetch"

\* The user the backend returns with a token (authData.user, userData).
UserOf(t) == t

\* How a request ends: a 2xx response, another response, or no response.
AuthOutcomes == {"ok", "rejected", "failure"}

\* The mount effect: checkExistingAuth up to its fetch, for the content
\* `saved` of localStorage (0: no 'auth_token').  With no saved token it
\* runs to its end in the same task.
AuthMount(saved) ==
    /\ authPhase = "initial"
    /\ authPhase' = "mounted"
    /\ storedToken' = saved
    /\ IF saved # 0
       THEN /\ authOps' = Append(authOps, [kind |-> "validate", saved |-> saved])
            /\ nAuthOps' = nAuthOps + 1
            /\ UNCHANGED isLoading
       ELSE /\ isLoading' = FALSE
            /\ UNCHANGED <<authOps, nAuthOps>>
    /\ UNCHANGED <<isAuthenticated, user, token, authError, loggedOut>>
    /\ UNCHANGED appVars

\* login up to its fetch.
AuthLogin ==
    /\ authPhase = "mounted"
    /\ nAuthOps < MaxAuthOps
    /\ isLoading' = TRUE
    /\ authError' = <<>>
    /\ authOps' = Append(authOps, [kind |-> "login", saved |-> 0])
    /\ nAuthOps' = nAuthOps + 1
    /\ loggedOut' = FALSE
    /\ UNCHANGED <<isAuthenticated, user, token, storedToken, authPhase>>
    /\ UNCHANGED appVars

\* SignupValidates with the comparison left out.
SignupValidates_Skip(password, confirmPassword) == TRUE

\* The validation of signup: userData.password === userData.confirmPassword.
SignupValidates(password, confirmPassword) == password = confirmPassword

\* signup up to its fetch; when the validation fails the throw, the catch
\* and the finally run in the same task.
AuthSignup(password, confirmPassword) ==
    /\ authPhase = "mounted"
    /\ loggedOut' = FALSE
    /\ IF SignupValidates(password, confirmPassword)
       THEN /\ nAuthOps < MaxAuthOps
            /\ isLoading' = TRUE
            /\ authError' = <<>>
            /\ authOps' = Append(authOps, [kind |-> "signup", saved |-> 0])
            /\ nAuthOps' = nAuthOps + 1
            /\ UNCHANGED <<isAuthenticated, user, token, storedToken>>
       ELSE /\ authError' = <<ErrMismatch>>
            /\ token' = 0
            /\ user' = 0
            /\ isAuthenticated' = FALSE
            /\ storedToken' = 0
            /\ isLoading' = FALSE
            /\ UNCHANGED <<authOps, nAuthOps>>
    /\ UNCHANGED authPhase
    /\ UNCHANGED appVars

\* The error text of a login or signup that fails: the default message of
\* a response without detail, or the message of the fetch error.
AuthErrorOf(kind, outcome) ==
    IF outcome = "failure" THEN ErrFetch
    ELSE IF kind = "login" THEN ErrLogin ELSE ErrSignup

\* Request i settles: the rest of checkExistingAuth, login or signup.  t is
\* the access token a successful login or signup returns.
AuthSettles(i, outcome, t) ==
    /\ i \in 1..Len(authOps)
    /\ authOps' = SubSeq(authOps, 1, i - 1) \o SubSeq(authOps, i + 1, Len(authOps))
    /\ LET op == authOps[i] IN
       IF outcome = "ok"
       THEN /\ token' = IF op.kind = "validate" THEN op.saved ELSE t
            /\ user' = UserOf(IF op.kind = "validate" THEN op.saved ELSE t)
            /\ isAuthenticated' = TRUE
            /\ authError' = <<>>
            /\ storedToken' = IF op.kind = "validate" THEN storedToken ELSE t
       ELSE /\ token' = 0
            /\ user' = 0
            /\ isAuthenticated' = FALSE
            /\ storedToken' = 0
            /\ authError' = IF op.kind = "validate"
                            THEN authError
                            ELSE <<AuthErrorOf(op.kind, outcome)>>
    /\ isLoading' = FALSE
    /\ UNCHANGED <<nAuthOps, authPhase, loggedOut>>
    /\ UNCHANGED appVars

\* logout.
AuthLogout ==
    /\ authPhase = "mounted"
    /\ token' = 0
    /\ user' = 0
    /\ isAuthenticated' = FALSE
    /\ authError' = <<>>
    /\ storedToken' = 0
    /\ loggedOut' = TRUE
    /\ UNCHANGED <<isLoading, authOps, nAuthOps, authPhase>>
    /\ UNCHANGED appVars

\* The AuthProvider: its mount effect and the functions of its context,
\* called by any component under it.
NextAuth ==
    \/ \E saved \in 0..MaxToken : AuthMount(saved)
    \/ AuthLogin
    \/ \E password \in Passwords, confirmPassword \in Passwords :
          AuthSignup(password, confirmPassword)
    \/ \E i \in 1..MaxAuthOps, outcome \in AuthOutcomes, t \in Tokens :
          AuthSettles(i, outcome, t)
    \/ AuthLogout

SpecAuth == Init /\ [][NextAuth]_vars

\* --------------------------------------------------------- speaker tracking
\* The speaker bookkeeping of the server session, which the client only
\* declares (AppState.speakerCount, TranscriptionMessage.speaker).
Max(a, b) == IF a >= b THEN a ELSE b

\* SpeakerCountAfter with the count following the latest tag.
SpeakerCountAfter_Latest(speaker, cur) == speaker + 1

\* speakerCount after a result tagged `speaker`.
SpeakerCountAfter(speaker, cur) == Max(cur, speaker + 1)

\* The session consumes a recognition result; tag is <<>> when the result
\* carries no speaker.
SpeakerResult(tag) ==
    /\ Len(speakerTags) < MaxTags
    /\ speakerTags' = Append(speakerTags, tag)
    /\ currentSpeaker' = IF tag # <<>> THEN tag ELSE currentSpeaker
    /\ speakerCount' = IF tag # <<>>
                       THEN SpeakerCountAfter(tag[1], speakerCount)
                       ELSE speakerCount
    /\ UNCHANGED <<uiVars, refVars, readyState, startPc, mediaVars, summaryVars,
                   sentOn, msgSeq, lastFrame, lastChunk, firstSent, clearedText,
                   authVars, mounted>>

NextSpeaker == \E tag \in Opt(0..MaxSpeaker) : SpeakerResult(tag)

SpecSpeaker == Init /\ [][NextSpeaker]_vars

\* The handling of transcription frames, error frames and frames of unknown
\* type, well-formed or not, on the first connection: the handler treats
\* every socket alike.
NextText ==
    \/ ClickStart(1)
    \/ SocketOpen(1)
    \/ \E f \in TranscriptionFrames \cup ErrorFrames \cup OtherFrames : OnMessage(1, f)
    \/ OnMalformedMessage(1)
    \/ ClickClear

SpecText == Init /\ [][NextText]_vars

\* generateSummary under the transcripts of one connection, called on its
\* own from the current render.
NextGenerate ==
    \/ ClickStart(1)
    \/ SocketOpen(1)
    \/ \E f \in TranscriptionFrames : OnMessage(1, f)
    \/ CallGenerateSummary
    \/ \E i \in 1..(MaxSockets + 1), outcome \in Outcomes : FetchSettles(i, outcome)
    \/ ClickClear

SpecGenerate == Init /\ [][NextGenerate]_vars

\* One connection with transcription frames only, up to the microphone
\* prompt: the interim text and the transcript under the frames of a session.
NextInterim ==
    \/ ClickStart(1)
    \/ SocketOpen(1)
    \/ \E f \in TranscriptionFrames : OnMessage(1, f)
    \/ MicDenied(1)
    \/ SocketClosed(1)
    \/ ClickClear

SpecInterim == Init /\ [][NextInterim]_vars

\* The handling of the other frames: status, error and unknown types.
NextStatus ==
    \/ \E s \in Sockets : ClickStart(s)
    \/ \E s \in Sockets : SocketOpen(s)
    \/ \E s \in Sockets, f \in StatusFrames \cup ErrorFrames \cup OtherFrames :
          OnMessage(s, f)

SpecStatus == Init /\ [][NextStatus]_vars

\* ==================================================================== claims
IsFinal(f) == f.is_final = <<TRUE>>

Live(s) == readyState[s] \in {"CONNECTING", "OPEN"}

LiveSockets == {s \in Sockets : Live(s)}

\* The statuses of a session that is streaming.
Streaming == {"Connected", "Connected to Deepgram", "Enhanced Features Active"}

\* The request issued by the step, when the step issued one.
Issued == Len(fetches') = Len(fetches) + 1

\* The record button is enabled / is enabled and shows Start.
ButtonEnabled == mounted /\ connectionStatus # "Connection Error"

StartEnabled == ButtonEnabled /\ ~isRecording

\* C1: handling a transcription frame never shortens or rewrites the final
\* transcript: its value before the frame is a prefix of its value after.
C1_MonotonicTranscript ==
    [][\A s \in Sockets, f \in TranscriptionFrames :
          (mounted /\ OnMessage(s, f)) => IsPrefix(transcription, transcription')]_vars

C3_SendOnlyWhileStreaming ==
    (mounted /\ sentOn # 0) => connectionStatus \in Streaming

\* C4: for every session, at most one automatic summarization request is
\* issued, however many stop paths ran for it and whatever its outcome.
C4_AtMostOneAutoSummary == \A k \in 0..MaxSockets : autoRequests[k] <= 1

\* C4 witness: a session was stopped by the button and then the component
\* unmounted, both timers have fired and the request has failed.
C4_Witness ==
    /\ ~mounted
    /\ timers = <<>>
    /\ fetches = <<>>
    /\ \E k \in Sockets : autoRequests[k] = 1 /\ recorder[k] \in {"flushing", "inactive"}

\* C5: when the quiet-period timer fires and the final transcript is not
\* empty, one request with summary_type "meeting" is issued.
C5_SummaryWhenTranscriptNonEmpty ==
    [][(mounted /\ TimerFire /\ Trim(transcription) # <<>>) =>
          (Issued /\ fetches'[Len(fetches')].summary_type = "meeting")]_vars

\* C6: the text of the automatic request is the final transcript as it
\* stands when the timer fires.
C6_RequestTextIsTranscriptAtFire ==
    [][(mounted /\ TimerFire /\ Issued) =>
          fetches'[Len(fetches')].text = transcription]_vars

\* C7: when the timer fires and the final transcript is empty or whitespace
\* only, no request is issued.
C7_NoRequestWhenTranscriptEmpty ==
    [][(mounted /\ TimerFire /\ Trim(transcription) = <<>>) => ~Issued]_vars

\* C8: at most one WebSocket is connecting or open, and exactly one while
\* the status is Connecting or a streaming status.
C8_ExactlyOneLink ==
    /\ Cardinality(LiveSockets) <= 1
    /\ (mounted /\ connectionStatus \in {"Connecting"} \cup Streaming) =>
           Cardinality(LiveSockets) = 1

\* C9: while the status is Disconnected no WebSocket is connecting or open.
C9_DisconnectedHasNoLink ==
    (mounted /\ connectionStatus = "Disconnected") => LiveSockets = {}

\* C10: a close of the session's open socket that the user did not request
\* ends the recording and arms the auto-summary timer, as a stop does.
C10_CloseActsAsStop ==
    [][\A s \in Sockets :
          (mounted /\ isRecording /\ websocketRef = s /\ readyState[s] = "OPEN"
             /\ SocketClosed(s)) =>
              (~isRecording' /\ Len(timers') = Len(timers) + 1)]_vars

\* C11: when a socket fails, exactly one error text is written for the
\* failure and it is the one left on display, the text of ws.onerror.
C11_OneErrorPerFailure ==
    [][\A s \in Sockets :
          (mounted /\ SocketError(s)) =>
              (Len(ErrorWritesOnError(s)) = 1 /\ error' = ErrConnection)]_vars

\* C12: after a transcription frame that carries a text, a final flag and a
\* full_transcript, the final transcript is the frame's full_transcript and
\* the interim text is the frame's interim text (its text when it is not
\* final, "" when it is), for final and non-final frames alike.
C12_LatestStringsRendered ==
    [][\A s \in Sockets, f \in TranscriptionFrames :
          (mounted /\ OnMessage(s, f) /\ TruthyText(f.text) /\ f.is_final # <<>>
             /\ f.full_transcript # <<>>) =>
              /\ transcription' = f.full_transcript[1]
              /\ interimText' = IF IsFinal(f) THEN <<>> ELSE f.text[1]]_vars

\* C13 as stated: a connection_status frame with a `status` field sets the
\* connection status to the value of that field.
C13_StatusFieldSetsStatus ==
    [][\A s \in Sockets, f \in StatusFrames :
          (mounted /\ OnMessage(s, f) /\ f.status # <<>>) =>
              connectionStatus' = f.status[1]]_vars

\* C13 amended: a connection_status frame sets the connection status to the
\* value of its `message` field, and leaves it unchanged when the frame has
\* no `message`, whatever its `status` field holds.
C13_MessageFieldSetsStatus ==
    [][\A s \in Sockets, f \in StatusFrames :
          (mounted /\ OnMessage(s, f)) =>
              connectionStatus' =
                  IF f.message # <<>> THEN f.message[1] ELSE connectionStatus]_vars

\* C13 witness: a status only a connection_status frame can set is on display.
C13_Witness == mounted /\ connectionStatus = "Enhanced Features Active"

\* C14: the connection status changes only along the listed transitions: to
\* Connecting only from Disconnected and on a start; to a streaming status
\* only from Connecting, on the open event of the socket of that start; to
\* Disconnected only from Connection Error (a failing socket passes through
\* it within its task) or when a closing socket closes.
C14_ListedTransitionsOnly ==
    [][(mounted /\ mounted' /\ connectionStatus' # connectionStatus) =>
          /\ connectionStatus' = "Connecting" =>
                (connectionStatus = "Disconnected" /\ \E s \in Sockets : ClickStart(s))
          /\ connectionStatus' \in Streaming =>
                /\ connectionStatus = "Connecting"
                /\ \E s \in Sockets : websocketRef = s /\ SocketOpen(s)
          /\ connectionStatus' = "Disconnected" =>
                \/ connectionStatus = "Connection Error"
                \/ \E s \in Sockets : SocketError(s)
                \/ \E s \in Sockets : readyState[s] = "CLOSING" /\ SocketClosed(s)]_vars

\* C15: the close event of the socket of a stopped session, delivered after
\* a new start has stored its own socket, changes neither the connection
\* status, nor the transcript, nor the interim text, nor the error text.
C15_NoCrossSessionInterference ==
    [][\A s \in Sockets :
          (mounted /\ websocketRef # 0 /\ websocketRef # s
             /\ readyState[s] = "CLOSING" /\ SocketClosed(s)) =>
              UNCHANGED <<connectionStatus, transcription, interimText, error>>]_vars

\* C16: once a stop has started closing a socket, the status eventually
\* reads Disconnected, whether or not the close event is ever delivered.
C16_StopReportsDisconnected ==
    (mounted /\ \E s \in Sockets : readyState[s] = "CLOSING")
        ~> (~mounted \/ connectionStatus = "Disconnected")

\* C17: a status of Connecting is eventually left, whether or not the socket
\* ever opens or reports an error.
C17_ConnectingIsLeft ==
    (mounted /\ connectionStatus = "Connecting")
        ~> (~mounted \/ connectionStatus # "Connecting")

\* C18: a final transcription frame whose text is the empty string leaves
\* the final transcript unchanged.
C18_EmptyFinalKeepsTranscript ==
    [][\A s \in Sockets, f \in TranscriptionFrames :
          (IsFinal(f) /\ f.text = << <<>> >> /\ mounted /\ OnMessage(s, f)) =>
              transcription' = transcription]_vars

\* C18 witness: such a frame has just been handled while a transcript was
\* on display.
C18_Witness == mounted /\ lastFrame = "emptyFinal" /\ transcription # <<>>

\* C19 as stated: every final transcription frame, one with empty text
\* included, empties the interim text, and nothing else empties it.
C19_InterimClearedExactlyOnFinal ==
    [][mounted =>
          /\ \A s \in Sockets, f \in TranscriptionFrames :
                (OnMessage(s, f) /\ IsFinal(f)) => interimText' = <<>>
          /\ (interimText # <<>> /\ interimText' = <<>>) =>
                \E s \in Sockets, f \in TranscriptionFrames :
                    OnMessage(s, f) /\ IsFinal(f)]_vars

\* C19 amended: every final transcription frame with a non-empty text
\* empties the interim text, and a non-empty interim text is emptied only by
\* such a frame or by clearAll.
C19_InterimClearedOnFinalTextOrClear ==
    [][mounted =>
          /\ \A s \in Sockets, f \in TranscriptionFrames :
                (IsFinal(f) /\ TruthyText(f.text) /\ OnMessage(s, f)) =>
                    interimText' = <<>>
          /\ (interimText # <<>> /\ interimText' = <<>>) =>
                \/ ClickClear
                \/ \E s \in Sockets, f \in TranscriptionFrames :
                      IsFinal(f) /\ TruthyText(f.text) /\ OnMessage(s, f)]_vars

\* C19 witness: a final frame with a text has just emptied an interim text.
C19_Witness == mounted /\ lastFrame = "finalOverInterim" /\ interimText = <<>>

\* C20: a message that fails to parse changes none of the state on display
\* and leaves its socket open, so that later frames are handled.
C20_MalformedFrameDropped ==
    [][\A s \in Sockets :
          OnMalformedMessage(s) => (UNCHANGED uiVars /\ readyState'[s] = "OPEN")]_vars

\* C20 witness: a malformed message has just been handled while a transcript
\* and an interim text were on display.
C20_Witness ==
    mounted /\ lastFrame = "malformed" /\ transcription # <<>> /\ interimText # <<>>

\* C21 as stated: a summarization request that fails, whether the response
\* carries `error` or the request fails in transport, leaves a summary
\* value carrying `error`, and leaves transcript, interim text and status.
C21_FailureIsSummaryWithError ==
    [][\A i \in 1..(MaxSockets + 1), outcome \in {"errorSummary", "failure"} :
          (mounted /\ FetchSettles(i, outcome)) =>
              /\ aiSummary' # <<>> /\ aiSummary'[1].error
              /\ UNCHANGED <<transcription, interimText, connectionStatus>>]_vars

\* C21 amended: a response carrying `error` is stored as the summary and
\* the error text is left alone; a request that fails in transport leaves
\* the summary as it is and sets the error text of generateSummary; both
\* leave transcript, interim text and connection status unchanged.
C21_FailureKeepsTranscript ==
    [][\A i \in 1..(MaxSockets + 1), outcome \in {"errorSummary", "failure"} :
          (mounted /\ FetchSettles(i, outcome)) =>
              /\ UNCHANGED <<transcription, interimText, connectionStatus>>
              /\ ~isGeneratingSummary'
              /\ IF outcome = "errorSummary"
                 THEN aiSummary' # <<>> /\ aiSummary'[1].error /\ error' = error
                 ELSE aiSummary' = aiSummary /\ error' = ErrSummary]_vars

\* C21 witness: a summary carrying `error` is on display.
C21_Witness == mounted /\ aiSummary # <<>> /\ aiSummary[1].error /\ ~isGeneratingSummary

\* The largest speaker tag among the results so far, plus one (0 when no
\* result carried a tag).
RECURSIVE MaxTagPlusOne(_)
MaxTagPlusOne(tags) ==
    IF tags = <<>> THEN 0
    ELSE LET rest == MaxTagPlusOne(SubSeq(tags, 1, Len(tags) - 1))
             last == tags[Len(tags)]
         IN IF last # <<>> /\ last[1] + 1 > rest THEN last[1] + 1 ELSE rest

C23_DroppedAudioIsNotReplayed ==
    [][sentOn' # 0 =>
          /\ CanSend
          /\ sentOn' = websocketRef
          /\ \E r \in Sockets : \/ DataAvailable(r, TRUE)
                                \/ FinalDataAvailable(r, TRUE)]_vars

\* C23 witness: a chunk has just been dropped, with no open socket in the ref.
C23_Witness == mounted /\ lastChunk = "dropped" /\ ~CanSend

\* C24: after stopRecording no audio is sent on the connection it stopped.
\* stopRecording leaves the socket of the ref neither connecting nor open
\* and clears the ref; a socket that is closing or closed never opens again;
\* audio is sent only on an open socket; so the last chunk of the stopped
\* recorder is not sent on that socket.
C24_NoAudioAfterStop ==
    [][/\ (ClickStop \/ (mounted /\ Unmount)) =>
              /\ websocketRef' = 0
              /\ websocketRef # 0 =>
                     readyState'[websocketRef] \notin {"CONNECTING", "OPEN"}
       /\ \A s \in Sockets :
              readyState[s] \in {"CLOSING", "CLOSED"} =>
                  readyState'[s] \in {"CLOSING", "CLOSED"}
       /\ sentOn' # 0 => readyState[sentOn'] = "OPEN"
       /\ \A r \in Sockets :
              (FinalDataAvailable(r, TRUE) /\ websocketRef = 0) => sentOn' = 0]_vars

\* C24 witness: the last chunk of a stopped recorder has been dropped.
C24_Witness == lastChunk = "droppedFinal" /\ websocketRef = 0

\* C25: when the socket reports an error before its open event, the status
\* is left at 'Connection Error', isRecording stays as it was, and no
\* microphone stream and no recorder exists for that start.
C25_OpenFailureLeavesConnectionError ==
    [][\A s \in Sockets :
          (mounted /\ readyState[s] = "CONNECTING" /\ SocketError(s)) =>
              /\ connectionStatus' = "Connection Error"
              /\ UNCHANGED isRecording
              /\ recorder'[s] = "none"
              /\ ~trackLive'[s]]_vars

C27_TeardownExceptionSwallowed ==
    [][\A at \in 1..Len(TeardownSteps) :
          ClickStopThrows(at) =>
              /\ ~isRecording'
              /\ websocketRef' = 0
              /\ websocketRef # 0 =>
                     readyState'[websocketRef] \notin {"CONNECTING", "OPEN"}]_vars

\* C28: the first frame sent on a connection is the start message, never
\* an audio frame.
C28_FirstFrameIsStart == \A s \in Sockets : firstSent[s] \in {"none", "start"}

\* C29: clearAll leaves every state variable of the component at its
\* initial value.
C29_ClearAllResetsState ==
    [][(mounted /\ ClickClear) =>
          /\ ~isRecording'
          /\ transcription' = <<>>
          /\ interimText' = <<>>
          /\ connectionStatus' = "Disconnected"
          /\ error' = ""
          /\ aiSummary' = <<>>
          /\ ~isGeneratingSummary']_vars

\* The handles of the refs are released: the recorder is inactive, no
\* stream and no socket is held, and nothing is recording.
Released ==
    /\ mediaRecorderRef # 0 => recorder[mediaRecorderRef] # "recording"
    /\ audioStreamRef = 0
    /\ websocketRef = 0
    /\ ~isRecording

\* C30: stopRecording releases the handles of the session.  After it the
\* recorder of the ref is inactive, the tracks of the stream are stopped
\* and audioStreamRef is null, the socket has been asked to close and
\* websocketRef is null, and isRecording is false; stopRecording called
\* again in such a state (by the unmount cleanup) changes none of them.
C30_StopReleasesHandles ==
    [][/\ ClickStop =>
              /\ mediaRecorderRef # 0 => recorder'[mediaRecorderRef] # "recording"
              /\ audioStreamRef # 0 => ~trackLive'[audioStreamRef]
              /\ audioStreamRef' = 0
              /\ websocketRef # 0 =>
                     readyState'[websocketRef] \notin {"CONNECTING", "OPEN"}
              /\ websocketRef' = 0
              /\ ~isRecording'
              /\ Released'
       /\ (Released /\ mounted /\ Unmount) =>
              UNCHANGED <<recorder, trackLive, audioStreamRef, readyState,
                          websocketRef, isRecording>>]_vars

\* C30 witness: Stop has just run on a recording session with an open socket.
C30_Witness ==
    /\ mounted
    /\ Released
    /\ mediaRecorderRef # 0
    /\ recorder[mediaRecorderRef] = "flushing"
    /\ ~trackLive[mediaRecorderRef]
    /\ readyState[mediaRecorderRef] = "CLOSING"

\* C31: generateSummary called while the transcript is empty or whitespace
\* only sends no request, sets the error text 'No transcription available
\* to summarize', and leaves aiSummary and isGeneratingSummary unchanged.
C31_EmptyTranscriptSendsNoRequest ==
    [][(Trim(transcription) = <<>> /\ CallGenerateSummary) =>
          /\ UNCHANGED <<fetches, nRequests, aiSummary, isGeneratingSummary>>
          /\ error' = ErrNoTranscription]_vars

\* C31 witness: generateSummary has refused a transcript of whitespace.
C31_Witness ==
    /\ mounted
    /\ transcription # <<>>
    /\ Trim(transcription) = <<>>
    /\ error = ErrNoTranscription

\* `part` occurs in `text` as a run of consecutive characters.
Occurs(part, text) ==
    \E i \in 1..(Len(text) - Len(part) + 1) :
        SubSeq(text, i, i + Len(part) - 1) = part

\* C34: after clearAll, the text it removed from the transcript does not
\* show again in the transcript: in particular no frame handled right
\* after clearAll brings it back.
C34_ClearedTextStaysCleared ==
    [][\A s \in Sockets, f \in TranscriptionFrames :
          (mounted /\ clearedText # <<>> /\ OnMessage(s, f)) =>
              ~Occurs(clearedText, transcription')]_vars

\* C35: isGeneratingSummary is true exactly while a summarization request
\* is in flight, and the summary shown when none is left is the response
\* to the request issued last.
C35_LoadingWhileRequestInFlight ==
    mounted =>
        /\ isGeneratingSummary <=> fetches # <<>>
        /\ (fetches = <<>> /\ aiSummary # <<>>) => aiSummary[1].req = nRequests

\* C36: while nothing is recording and no startRecording call is in
\* progress, no socket is connecting or open, no microphone track is live
\* and no recorder is recording.
C36_NoResourceWhileIdle ==
    (~isRecording /\ \A s \in Sockets : startPc[s] \notin {"awaitConnect", "awaitMic"}) =>
        /\ LiveSockets = {}
        /\ \A r \in Sockets : ~trackLive[r] /\ recorder[r] # "recording"

\* C37: a recording in progress can be stopped: while isRecording is true
\* the record button is enabled, or becomes enabled with no user action.
C37_RecordingCanBeStopped ==
    (mounted /\ isRecording) ~> (~mounted \/ ~isRecording \/ ButtonEnabled)

\* The AuthProvider holds no authentication data.
AuthCleared ==
    /\ token = 0
    /\ user = 0
    /\ ~isAuthenticated
    /\ storedToken = 0

\* C32: logout clears all authentication data, and the user stays logged
\* out until a login or signup is started after it, also when a request
\* started before the logout settles after it.
C32_LogoutStaysLoggedOut ==
    [][/\ AuthLogout => (AuthCleared' /\ authError' = <<>>)
       /\ loggedOut' => AuthCleared']_vars

\* C33: signup with passwords that differ sends no request, sets the error
\* 'Passwords do not match', leaves the user unauthenticated with no stored
\* token, and leaves isLoading false.
C33_MismatchSendsNoRequest ==
    [][\A password \in Passwords, confirmPassword \in Passwords :
          (password # confirmPassword /\ AuthSignup(password, confirmPassword)) =>
              /\ UNCHANGED <<authOps, nAuthOps>>
              /\ authError' = <<ErrMismatch>>
              /\ AuthCleared'
              /\ ~isLoading']_vars

\* C33 witness: a signup with differing passwords has been refused, with
\* no request in flight.
C33_Witness ==
    /\ authError = <<ErrMismatch>>
    /\ AuthCleared
    /\ ~isLoading
    /\ authOps = <<>>

\* C38: whenever no request of the AuthProvider is in flight, the user is
\* authenticated exactly when there is a token and exactly when there is a
\* user, localStorage holds the token of the state (none when it is
\* null), and isLoading is false.
C38_AuthStateConsistent ==
    (authPhase = "mounted" /\ authOps = <<>>) =>
        /\ isAuthenticated <=> token # 0
        /\ token # 0 <=> user # 0
        /\ storedToken = token
        /\ ~isLoading
====
